---- MODULE Spec2Model ----
(***************************************************************************)
(* The simulated asynchronous fetch helper (fetchData) of the challenge    *)
(* files and its consumers, on a model of the JavaScript run-time they use: *)
(* promises with reaction lists, the microtask queue, and setTimeout timers *)
(* against a clock.                                                         *)
(*                                                                         *)
(* A run is one script: top-level statements execute synchronously, then   *)
(* the event loop drains the microtask queue and fires timers.             *)
(***************************************************************************)
EXTENDS Integers, Sequences, FiniteSets, TLC

VARIABLES
    now,         \* the clock, in milliseconds
    phase,       \* "script" while top-level statements run, then "loop"
    promises,    \* the heap of promises: state, value, registered reactions
    microtasks,  \* the promise job queue (FIFO)
    calls,       \* one entry per fetchData invocation, with its timer
    stmts,       \* one entry per top-level statement executed
    alls,        \* Promise.all bookkeeping: values array, remaining count
    log,         \* what the handlers wrote to the console, in order
    reduction,   \* an Array.prototype.reduce call in progress, if any
    scope        \* the bindings and objects of a synchronous snippet, if any

vars == <<now, phase, promises, microtasks, calls, stmts, alls, log, reduction, scope>>

---------------------------------------------------------------------------
(* Bounds of the model *)

MaxStmts == 2
MaxId == 2
MaxTicks == 3

(* Program constants: the setTimeout delays *)
Delay15 == 2000
Delay16 == 2000
Delay25 == 1000

(* The clock advances in steps of the shortest delay *)
TickMs == Delay25
MaxTime == MaxTicks * TickMs

Ids == (0 - MaxId)..MaxId

(* The identifier lists the fan-out statements are run over *)
AllLists == {<<1, 2, 3>>}
All25Lists == {<<1, 2, 3, 4>>, <<1, 2, 3>>}
RaceLists == {<<2, 4, 6>>, <<1, 2>>, <<2, 1>>}

---------------------------------------------------------------------------
(* JavaScript values *)

Undefined == [t |-> "undefined"]
(* Faulty variant: the record does not echo the id it was asked for *)
Obj_NoEcho(id) == [t |-> "object", id |-> 0, data |-> "Some data"]

Obj(id) == [t |-> "object", id |-> id, data |-> "Some data"]
Err(msg, c) == [t |-> "Error", message |-> msg, by |-> c]
Str(s) == [t |-> "string", s |-> s]
Arr(items) == [t |-> "array", items |-> items]

(* The % operator of JavaScript: the sign of the result is the dividend's *)
JSRem(a, b) == IF a >= 0 THEN a % b ELSE 0 - ((0 - a) % b)

(* err.message: the message of an Error, undefined for any other value *)
MessageOf(v) == IF v.t = "Error" THEN Str(v.message) ELSE Undefined

(* `...${id}`: the decimal form of a number inside a template literal *)
Template(prefix, id) == prefix \o ToString(id)

---------------------------------------------------------------------------
(* Challenges 17 and 18: Array.prototype.reduce over a list of records    *)

MaxLen == 3

Num(n) == [t |-> "number", n |-> n]

(* String(v) as the + operator applies it to a primitive *)
ToStr(v) == IF v.t = "number" THEN ToString(v.n) ELSE v.s

(* a + b: addition of two numbers, concatenation once either is a string *)
Plus(a, b) ==
    IF a.t = "number" /\ b.t = "number"
    THEN Num(a.n + b.n)
    ELSE Str(ToStr(a) \o ToStr(b))

Item(item, price) == [item |-> Str(item), price |-> Num(price)]

obj == <<Item("A", 10), Item("B", 20), Item("C", 30)>>

(* const calculate = (acc, curr) => acc + curr.item *)
calculate(acc, curr) == Plus(acc, curr.item)

Typed(type, name) == [type |-> type, name |-> Str(name)]

arr == <<Typed("fruit", "apple"), Typed("vegetable", "carrot"), Typed("fruit", "banana")>>

(* The callback of challenge 18: acc[item.type] is created empty when it   *)
(* is missing, item.name is pushed to it, acc is returned                  *)
group(acc, item) ==
    LET made == [k \in DOMAIN acc \cup {item.type} |->
                    IF k \in DOMAIN acc THEN acc[k] ELSE <<>>]
    IN [made EXCEPT ![item.type] = Append(@, item.name)]

(* The lists a reduce is run over: the elements of the source's list, in   *)
(* any order and number up to MaxLen                                       *)
ListsOver(L) ==
    UNION {[1..n -> {L[k] : k \in DOMAIN L}] : n \in 0..MaxLen}

(* list.reduce(callback, initial), before its first step *)
Reduce(task, list, initial) ==
    [task |-> task, list |-> list, i |-> 0, acc |-> initial]

ReduceInit ==
    /\ now = 0
    /\ phase = "script"
    /\ promises = <<>>
    /\ microtasks = <<>>
    /\ calls = <<>>
    /\ stmts = <<>>
    /\ alls = <<>>
    /\ log = <<>>
    /\ reduction \in {Reduce("17", L, Num(0)) : L \in ListsOver(obj)}
                     \cup {Reduce("18", L, <<>>) : L \in ListsOver(arr)}
    /\ scope = [task |-> "none"]

(* One step of obj.reduce(calculate, 0) *)
Step17 ==
    /\ reduction.task = "17"
    /\ reduction.i < Len(reduction.list)
    /\ reduction' = [reduction EXCEPT
                        !.i = @ + 1,
                        !.acc = calculate(@, reduction.list[reduction.i + 1])]
    /\ UNCHANGED <<now, phase, promises, microtasks, calls, stmts, alls, log, scope>>

(* One step of arr.reduce((acc, item) => {...}, {}) *)
Step18 ==
    /\ reduction.task = "18"
    /\ reduction.i < Len(reduction.list)
    /\ reduction' = [reduction EXCEPT
                        !.i = @ + 1,
                        !.acc = group(@, reduction.list[reduction.i + 1])]
    /\ UNCHANGED <<now, phase, promises, microtasks, calls, stmts, alls, log, scope>>

ReduceNext == Step17 \/ Step18

ReduceSpec == ReduceInit /\ [][ReduceNext]_vars

---------------------------------------------------------------------------
(* Challenges 22 and 23: find, some and every over an array                *)

User(id, name) == [id |-> id, name |-> name]

users == <<User(1, "A"), User(2, "B"), User(3, "C")>>

Wanted22 == 20

(* (user) => user.id === 20 *)
IsWanted(user) == user.id = Wanted22

(* users.find(callback): the first element the callback accepts, or       *)
(* undefined                                                               *)
find(list) ==
    IF \E k \in DOMAIN list : IsWanted(list[k])
    THEN list[CHOOSE k \in DOMAIN list :
                 /\ IsWanted(list[k])
                 /\ \A j \in 1..(k - 1) : ~IsWanted(list[j])]
    ELSE Undefined

(* user || "User not found": undefined is falsy, an object is truthy *)
OrNotFound(user) == IF user = Undefined THEN Str("User not found") ELSE user

numbers == <<2, 4, 6, 8>>

Limit23 == 50

(* numbers.some(num => num > 50) *)
some(list) == \E k \in DOMAIN list : list[k] > Limit23

(* numbers.every(num => num % 2 === 0) *)
every(list) == \A k \in DOMAIN list : JSRem(list[k], 2) = 0

(* const user = users.find(...) *)
Find22 ==
    /\ scope.task = "22" /\ scope.pc = "start"
    /\ scope' = [task |-> "22", pc |-> "found", users |-> scope.users,
                 user |-> find(scope.users)]
    /\ UNCHANGED <<now, phase, promises, microtasks, calls, stmts, alls, log, reduction>>

(* console.log(user || "User not found") *)
Log22 ==
    /\ scope.task = "22" /\ scope.pc = "found"
    /\ scope' = [task |-> "22", pc |-> "logged", users |-> scope.users,
                 user |-> scope.user, out |-> OrNotFound(scope.user)]
    /\ UNCHANGED <<now, phase, promises, microtasks, calls, stmts, alls, log, reduction>>

(* const someNumbers = numbers.some(...) *)
Some23 ==
    /\ scope.task = "23" /\ scope.pc = "start"
    /\ scope' = [task |-> "23", pc |-> "some", numbers |-> scope.numbers,
                 someNumbers |-> some(scope.numbers)]
    /\ UNCHANGED <<now, phase, promises, microtasks, calls, stmts, alls, log, reduction>>

(* const everyNumbers = numbers.every(...) *)
Every23 ==
    /\ scope.task = "23" /\ scope.pc = "some"
    /\ scope' = [task |-> "23", pc |-> "every", numbers |-> scope.numbers,
                 someNumbers |-> scope.someNumbers,
                 everyNumbers |-> every(scope.numbers)]
    /\ UNCHANGED <<now, phase, promises, microtasks, calls, stmts, alls, log, reduction>>

(* The arrays the snippets are run over: the source's array, and the      *)
(* lists up to MaxLen of its elements and of one element the callback      *)
(* accepts (a user with the wanted id, a number above the limit)           *)
Start22 ==
    {[task |-> "22", pc |-> "start", users |-> L] :
        L \in ListsOver(Append(users, User(Wanted22, "Z"))) \cup {users}}

Start23 ==
    {[task |-> "23", pc |-> "start", numbers |-> L] :
        L \in ListsOver(Append(numbers, Limit23 + 1)) \cup {numbers}}

(* Challenge 14: a shallow copy.  Objects live in a heap (a sequence, an  *)
(* object's reference being its index); a property holds a number or the  *)
(* reference of another object.                                            *)

(* const original = { a: .., b: { c: .. } }: the nested object, then the   *)
(* object holding a reference to it                                        *)
Original(a, c) == <<[c |-> c], [a |-> a, b |-> 1]>>

(* Faulty variant: the copy is deep, the nested object is copied too *)
Spread_Deep(heap, src) ==
    heap \o <<heap[heap[src].b], [a |-> heap[src].a, b |-> Len(heap) + 1]>>

(* { ...src }: a new object with the own properties of src, each with the  *)
(* value src has for it (for b, the same reference)                        *)
Spread(heap, src) == Append(heap, [a |-> heap[src].a, b |-> heap[src].b])

Values14 == {1, 2, 10, 20}

Start14 ==
    {[task |-> "14", pc |-> "start", heap |-> Original(a, c), original |-> 2] :
        a \in Values14, c \in Values14}

(* const copy = {...original} *)
Copy14 ==
    /\ scope.task = "14" /\ scope.pc = "start"
    /\ LET heap == Spread(scope.heap, scope.original)
       IN scope' = [task |-> "14", pc |-> "copied", heap |-> heap,
                    original |-> scope.original, copy |-> Len(heap), v |-> 0]
    /\ UNCHANGED <<now, phase, promises, microtasks, calls, stmts, alls, log, reduction>>

(* copy.a = v *)
SetA14(v) ==
    /\ scope.task = "14" /\ scope.pc = "copied"
    /\ scope' = [scope EXCEPT !.pc = "a", !.v = v, !.heap[scope.copy].a = v]
    /\ UNCHANGED <<now, phase, promises, microtasks, calls, stmts, alls, log, reduction>>

(* copy.b.c = v *)
SetBC14(v) ==
    /\ scope.task = "14" /\ scope.pc = "a"
    /\ scope' = [scope EXCEPT !.pc = "c", !.v = v,
                                !.heap[scope.heap[scope.copy].b].c = v]
    /\ UNCHANGED <<now, phase, promises, microtasks, calls, stmts, alls, log, reduction>>

---------------------------------------------------------------------------
(* Challenge 24: class Rectangle                                           *)

MaxOps == 3

Sides24 == {0, 5, 10}

(* constructor(width, height) *)
Rectangle(width, height) == [width |-> width, height |-> height]

(* get area() *)
area(this) == this.width * this.height

(* Faulty variant: the setter updates the width only *)
dimensions_WidthOnly(this, d) == [this EXCEPT !.width = d.width]

(* set dimensions({ width, height }) *)
dimensions(this, d) == [this EXCEPT !.width = d.width, !.height = d.height]

Start24 == {[task |-> "24", op |-> "none", n |-> 0]}

(* const rect = new Rectangle(w, h) *)
New24(w, h) ==
    /\ scope.task = "24" /\ scope.op = "none"
    /\ scope' = [task |-> "24", op |-> "new", n |-> 0, rect |-> Rectangle(w, h),
                 arg |-> [width |-> w, height |-> h], read |-> 0]
    /\ UNCHANGED <<now, phase, promises, microtasks, calls, stmts, alls, log, reduction>>

(* rect.dimensions = { width: w, height: h } *)
Set24(w, h) ==
    /\ scope.task = "24" /\ scope.op # "none" /\ scope.n < MaxOps
    /\ LET d == [width |-> w, height |-> h]
       IN scope' = [scope EXCEPT !.op = "set", !.n = @ + 1, !.arg = d,
                                   !.rect = dimensions(@, d)]
    /\ UNCHANGED <<now, phase, promises, microtasks, calls, stmts, alls, log, reduction>>

(* rect.area *)
Get24 ==
    /\ scope.task = "24" /\ scope.op # "none" /\ scope.n < MaxOps
    /\ scope' = [scope EXCEPT !.op = "get", !.n = @ + 1, !.read = area(scope.rect)]
    /\ UNCHANGED <<now, phase, promises, microtasks, calls, stmts, alls, log, reduction>>

SyncInit ==
    /\ now = 0
    /\ phase = "script"
    /\ promises = <<>>
    /\ microtasks = <<>>
    /\ calls = <<>>
    /\ stmts = <<>>
    /\ alls = <<>>
    /\ log = <<>>
    /\ reduction = [task |-> "none"]
    /\ scope \in Start22 \cup Start23 \cup Start14 \cup Start24

SyncNext ==
    \/ Find22
    \/ Log22
    \/ Some23
    \/ Every23
    \/ Copy14
    \/ \E v \in Values14 : SetA14(v)
    \/ \E v \in Values14 : SetBC14(v)
    \/ \E w \in Sides24, h \in Sides24 : New24(w, h)
    \/ \E w \in Sides24, h \in Sides24 : Set24(w, h)
    \/ Get24

SyncSpec == SyncInit /\ [][SyncNext]_vars

---------------------------------------------------------------------------
(* The three fetchData helpers: what the timer callback settles with.      *)
(* c is the invocation, the identity of the Error object it creates.       *)

(* Faulty variant: the parity test is inverted *)
fetchData15_Inverted(id, c) ==
    IF JSRem(id, 2) # 0
    THEN [st |-> "fulfilled", val |-> Obj(id)]
    ELSE [st |-> "rejected", val |-> Err("ID must be even", c)]

(* Faulty variant: odd ids are recognised by id % 2 === 1, which no negative id is *)
fetchData15_NaiveOdd(id, c) ==
    IF JSRem(id, 2) = 1
    THEN [st |-> "rejected", val |-> Err("ID must be even", c)]
    ELSE [st |-> "fulfilled", val |-> Obj(id)]

(* Faulty variant: the parity test is missing, every id resolves *)
fetchData15_AlwaysResolve(id, c) ==
    [st |-> "fulfilled", val |-> Obj(id)]

(* Faulty variant: a counter shared by the calls leaks into the test *)
fetchData15_Stateful(id, c) ==
    IF JSRem(id + c, 2) # 0
    THEN [st |-> "fulfilled", val |-> Obj(id)]
    ELSE [st |-> "rejected", val |-> Err("ID must be even", c)]

fetchData15(id, c) ==
    IF JSRem(id, 2) = 0
    THEN [st |-> "fulfilled", val |-> Obj(id)]
    ELSE [st |-> "rejected", val |-> Err("ID must be even", c)]

(* Faulty variant: the parity test is inverted *)
fetchData16_Inverted(id, c) ==
    IF JSRem(id, 2) # 0
    THEN [st |-> "fulfilled", val |-> Obj(id)]
    ELSE [st |-> "rejected", val |-> Err("ID must be even", c)]

(* Faulty variant: the copy of the helper words its failure differently *)
fetchData16_OtherMessage(id, c) ==
    IF JSRem(id, 2) = 0
    THEN [st |-> "fulfilled", val |-> Obj(id)]
    ELSE [st |-> "rejected", val |-> Err("Id must be even", c)]

fetchData16(id, c) ==
    IF JSRem(id, 2) = 0
    THEN [st |-> "fulfilled", val |-> Obj(id)]
    ELSE [st |-> "rejected", val |-> Err("ID must be even", c)]

(* Faulty variant: the range test of challenge 25 beside the parity test *)
(* of challenge 15                                                        *)
fetchData25_Parity(id, c) ==
    IF id < 1 \/ id > 3 \/ JSRem(id, 2) # 0
    THEN [st |-> "rejected", val |-> Str(Template("Error: Invalid ID ", id))]
    ELSE [st |-> "fulfilled", val |-> Str(Template("Data for ID ", id))]

(* Faulty variant: the upper limit of the range test is one too high *)
fetchData25_UpTo4(id, c) ==
    IF id < 1 \/ id > 4
    THEN [st |-> "rejected", val |-> Str(Template("Error: Invalid ID ", id))]
    ELSE [st |-> "fulfilled", val |-> Str(Template("Data for ID ", id))]

fetchData25(id, c) ==
    IF id < 1 \/ id > 3
    THEN [st |-> "rejected", val |-> Str(Template("Error: Invalid ID ", id))]
    ELSE [st |-> "fulfilled", val |-> Str(Template("Data for ID ", id))]

(* Faulty variant: a timer that runs past its due time fails the call    *)
(* with a timeout                                                         *)
Outcome_Deadline(fn, id, c) ==
    IF now > calls[c].due
    THEN [st |-> "rejected", val |-> Err("Timeout", c)]
    ELSE CASE fn = "fetchData15" -> fetchData15(id, c)
           [] fn = "fetchData16" -> fetchData16(id, c)
           [] fn = "fetchData25" -> fetchData25(id, c)

Outcome(fn, id, c) ==
    CASE fn = "fetchData15" -> fetchData15(id, c)
      [] fn = "fetchData16" -> fetchData16(id, c)
      [] fn = "fetchData25" -> fetchData25(id, c)

DelayOf(fn) ==
    CASE fn = "fetchData15" -> Delay15
      [] fn = "fetchData16" -> Delay16
      [] fn = "fetchData25" -> Delay25

---------------------------------------------------------------------------
(* Promises *)

(* Faulty variant: Promise.resolve() where new Promise(executor) is meant *)
NewPromise_Resolved == [st |-> "fulfilled", val |-> Undefined, rx |-> <<>>]

NewPromise == [st |-> "pending", val |-> Undefined, rx |-> <<>>]

(* A reaction: kind names the handler, d the promise it settles, s the     *)
(* statement it belongs to, a/i the Promise.all record and element index   *)
Rx(kind, d, s) == [kind |-> kind, d |-> d, s |-> s, a |-> 0, i |-> 0]
(* The reaction of a fan-out aggregate d to its i-th input *)
RxElem(kind, d, s, a, i) == [kind |-> kind, d |-> d, s |-> s, a |-> a, i |-> i]
(* NewPromiseResolveThenableJob: the promise d of an async function was    *)
(* resolved with the promise p; the job subscribes d to p                  *)
RxThenable(p, d, s) == [kind |-> "thenable", d |-> d, s |-> s, a |-> 0, i |-> p]

Job(rx, st, val) == [rx |-> rx, st |-> st, val |-> val]

(* resolve / reject of a promise: only the first call has an effect, and   *)
(* it queues one job per reaction registered so far                        *)
(* Faulty variant: a settled promise can be settled again *)
Settle_Overwrite(h, p, st, val) ==
    [ps |-> [h.ps EXCEPT ![p].st = st, ![p].val = val],
     mq |-> h.mq \o [k \in 1..Len(h.ps[p].rx) |-> Job(h.ps[p].rx[k], st, val)]]

Settle(h, p, st, val) ==
    IF h.ps[p].st # "pending"
    THEN h
    ELSE [ps |-> [h.ps EXCEPT ![p].st = st, ![p].val = val],
          mq |-> h.mq \o [k \in 1..Len(h.ps[p].rx) |-> Job(h.ps[p].rx[k], st, val)]]

(* promise.then(...): registered when pending, queued at once when settled *)
React(h, p, rx) ==
    [ps |-> [h.ps EXCEPT ![p].rx = Append(@, rx)],
     mq |-> IF h.ps[p].st = "pending"
            THEN h.mq
            ELSE Append(h.mq, Job(rx, h.ps[p].st, h.ps[p].val))]

Heap == [ps |-> promises, mq |-> microtasks]

---------------------------------------------------------------------------
Init ==
    /\ now = 0
    /\ phase = "script"
    /\ promises = <<>>
    /\ microtasks = <<>>
    /\ calls = <<>>
    /\ stmts = <<>>
    /\ alls = <<>>
    /\ log = <<>>
    /\ reduction = [task |-> "none"]
    /\ scope = [task |-> "none"]

(* Faulty variant: setTimeout(callback) without its delay argument *)
Call_NoDelay(fn, id, p) ==
    [fn |-> fn, id |-> id, p |-> p, at |-> now, due |-> now,
     fired |-> FALSE, seq |-> 0]

(* The record of a fetchData invocation: new Promise + setTimeout *)
(* Faulty variant: a call waits for the calls made before it, its delay   *)
(* starting when the last of them is due                                  *)
Call_Serial(fn, id, p) ==
    LET start == IF calls = <<>> THEN now ELSE calls[Len(calls)].due
    IN [fn |-> fn, id |-> id, p |-> p, at |-> now, due |-> start + DelayOf(fn),
        fired |-> FALSE, seq |-> 0]

Call(fn, id, p) ==
    [fn |-> fn, id |-> id, p |-> p, at |-> now, due |-> now + DelayOf(fn),
     fired |-> FALSE, seq |-> 0]

CanStart(fn) ==
    /\ phase = "script"
    /\ Len(stmts) < MaxStmts
    /\ now + DelayOf(fn) <= MaxTime

(* fetchData(id).then(onSuccess).catch(onFailure).finally(cleanup) *)
(* Faulty variant: the cleanup is attached to the promise of fetchData,  *)
(* beside the chain, not at its end                                       *)
Chain_FinallyOnRoot(id) ==
    /\ LET n == Len(promises)
           s == Len(stmts) + 1
           c == Len(calls) + 1
           h0 == [ps |-> promises \o <<NewPromise, NewPromise, NewPromise, NewPromise>>,
                  mq |-> microtasks]
           h1 == React(h0, n + 1, Rx("then15", n + 2, s))
           h2 == React(h1, n + 2, Rx("catch15", n + 3, s))
           h3 == React(h2, n + 1, Rx("finally15", n + 4, s))
       IN /\ promises' = h3.ps
          /\ microtasks' = h3.mq
          /\ calls' = Append(calls, Call("fetchData15", id, n + 1))
          /\ stmts' = Append(stmts, [kind |-> "chain", fn |-> "fetchData15", ids |-> <<id>>, calls |-> <<c>>,
                                     root |-> n + 1, last |-> n + 4])
    /\ UNCHANGED <<now, phase, alls, log, reduction, scope>>

Chain(id) ==
    /\ LET n == Len(promises)
           s == Len(stmts) + 1
           c == Len(calls) + 1
           h0 == [ps |-> promises \o <<NewPromise, NewPromise, NewPromise, NewPromise>>,
                  mq |-> microtasks]
           h1 == React(h0, n + 1, Rx("then15", n + 2, s))
           h2 == React(h1, n + 2, Rx("catch15", n + 3, s))
           h3 == React(h2, n + 3, Rx("finally15", n + 4, s))
       IN /\ promises' = h3.ps
          /\ microtasks' = h3.mq
          /\ calls' = Append(calls, Call("fetchData15", id, n + 1))
          /\ stmts' = Append(stmts, [kind |-> "chain", fn |-> "fetchData15", ids |-> <<id>>, calls |-> <<c>>,
                                     root |-> n + 1, last |-> n + 4])
    /\ UNCHANGED <<now, phase, alls, log, reduction, scope>>

StmtChain(id) == CanStart("fetchData15") /\ Chain(id)

(* getData(id): an async function awaiting fetchData(id) in try/catch *)
getData(id) ==
    /\ LET n == Len(promises)
           s == Len(stmts) + 1
           c == Len(calls) + 1
           h0 == [ps |-> promises \o <<NewPromise, NewPromise>>, mq |-> microtasks]
           h1 == React(h0, n + 1, Rx("await16", n + 2, s))
       IN /\ promises' = h1.ps
          /\ microtasks' = h1.mq
          /\ calls' = Append(calls, Call("fetchData16", id, n + 1))
          /\ stmts' = Append(stmts, [kind |-> "getData", fn |-> "fetchData16", ids |-> <<id>>, calls |-> <<c>>,
                                     root |-> n + 1, last |-> n + 2])
    /\ UNCHANGED <<now, phase, alls, log, reduction, scope>>

StmtGetData(id) == CanStart("fetchData16") /\ getData(id)

(* Is fn declared `async function`?  Then its result is a second promise   *)
(* that adopts the one the body returns.                                   *)
IsAsync(fn) == fn = "fetchData25"

(* The promises a fan-out statement creates over the list L, in creation   *)
(* order: per id the promise of fetchData (and its async wrapper), then    *)
(* the aggregate and the two derived promises of .then(...).catch(...).    *)
(* n is the heap size before; each input carries the aggregate's reaction. *)
FanPromises(fn, L, n, s, elemKind, a, thenKind, catchKind) ==
    LET m == Len(L)
        w == IF IsAsync(fn) THEN 2 ELSE 1
        agg == n + w * m + 1
    IN [k \in 1..(w * m + 3) |->
          IF k <= w * m
          THEN IF k % w = 0
               THEN [NewPromise EXCEPT !.rx = <<RxElem(elemKind, agg, s, a, k \div w)>>]
               ELSE NewPromise
          ELSE IF k = w * m + 1
          THEN [NewPromise EXCEPT !.rx = <<Rx(thenKind, agg + 1, s)>>]
          ELSE IF k = w * m + 2
          THEN [NewPromise EXCEPT !.rx = <<Rx(catchKind, agg + 2, s)>>]
          ELSE NewPromise]

FanStmt(kind, fn, L, a, thenKind, catchKind) ==
    LET m == Len(L)
        n == Len(promises)
        s == Len(stmts) + 1
        w == IF IsAsync(fn) THEN 2 ELSE 1
        agg == n + w * m + 1
        inner(i) == n + w * (i - 1) + 1
        outer(i) == n + w * i
    IN /\ promises' = promises \o FanPromises(fn, L, n, s, kind, a, thenKind, catchKind)
       /\ microtasks' = microtasks \o
            (IF IsAsync(fn)
             THEN [i \in 1..m |-> Job(RxThenable(inner(i), outer(i), s), "fulfilled", Undefined)]
             ELSE <<>>)
       /\ calls' = calls \o [i \in 1..m |-> Call(fn, L[i], inner(i))]
       /\ stmts' = Append(stmts, [kind |-> kind, fn |-> fn, ids |-> L,
                                  calls |-> [i \in 1..m |-> Len(calls) + i],
                                  root |-> agg, last |-> agg + 2])

(* Promise.all([fetchData(..), ...]).then(...).catch(...) *)
All(fn, L) ==
    /\ LET m == Len(L)
           w == IF IsAsync(fn) THEN 2 ELSE 1
           agg == Len(promises) + w * m + 1
           a == Len(alls) + 1
       IN /\ FanStmt("all", fn, L, a, "then25", "catch25")
          /\ alls' = Append(alls, [p |-> agg, values |-> [i \in 1..m |-> Undefined],
                                   remaining |-> m])
    /\ UNCHANGED <<now, phase, log, reduction, scope>>

StmtAll(fn, L) == CanStart(fn) /\ All(fn, L)

(* Promise.race([fetchData(..), ...]).then(...).catch(...) *)
Race(L) ==
    /\ FanStmt("race", "fetchData15", L, 0, "thenRace", "catchRace")
    /\ UNCHANGED <<now, phase, alls, log, reduction, scope>>

StmtRace(L) == CanStart("fetchData15") /\ Race(L)

(* The script has run to its end: the event loop takes over *)
EndScript ==
    /\ phase = "script"
    /\ phase' = "loop"
    /\ UNCHANGED <<now, promises, microtasks, calls, stmts, alls, log, reduction, scope>>

(* Time passes while the event loop waits between tasks; a timer may     *)
(* therefore run later than its delay, never earlier                      *)
Tick ==
    /\ phase = "loop"
    /\ microtasks = <<>>
    /\ now + TickMs <= MaxTime
    /\ now' = now + TickMs
    /\ UNCHANGED <<phase, promises, microtasks, calls, stmts, alls, log, reduction, scope>>

(* Faulty variant: the timers of a fan-out are cleared once its aggregate *)
(* has settled                                                             *)
TimerReady_CancelLosers(c) ==
    /\ ~calls[c].fired
    /\ calls[c].due <= now
    /\ \A b \in DOMAIN calls :
          (~calls[b].fired /\ b # c) =>
              \/ calls[b].due > calls[c].due
              \/ (calls[b].due = calls[c].due /\ b > c)
    /\ ~\E s \in DOMAIN stmts :
          /\ stmts[s].kind \in {"all", "race"}
          /\ \E i \in DOMAIN stmts[s].calls : stmts[s].calls[i] = c
          /\ promises[stmts[s].root].st # "pending"

(* Faulty variant: of the timers due at the same time the one set last   *)
(* runs first                                                              *)
TimerReady_NewestFirst(c) ==
    /\ ~calls[c].fired
    /\ calls[c].due <= now
    /\ \A b \in DOMAIN calls :
          (~calls[b].fired /\ b # c) =>
              \/ calls[b].due > calls[c].due
              \/ (calls[b].due = calls[c].due /\ b < c)

(* setTimeout: a timer is run as a task of its own, not before its delay   *)
(* has elapsed; due timers run in the order of their due times, and those  *)
(* of the same due time in the order they were set                         *)
TimerReady(c) ==
    /\ ~calls[c].fired
    /\ calls[c].due <= now
    /\ \A b \in DOMAIN calls :
          (~calls[b].fired /\ b # c) =>
              \/ calls[b].due > calls[c].due
              \/ (calls[b].due = calls[c].due /\ b > c)

(* The position of the next timer callback in the order of the run's    *)
(* timer callbacks (a record of the run, read by no handler)              *)
NextSeq == Cardinality({b \in DOMAIN calls : calls[b].fired}) + 1

FireTimer(c) ==
    /\ phase = "loop"
    /\ microtasks = <<>>
    /\ TimerReady(c)
    /\ LET o == Outcome(calls[c].fn, calls[c].id, c)
           h == Settle(Heap, calls[c].p, o.st, o.val)
       IN /\ promises' = h.ps
          /\ microtasks' = h.mq
    /\ calls' = [calls EXCEPT ![c].fired = TRUE, ![c].seq = NextSeq]
    /\ UNCHANGED <<now, phase, stmts, alls, log, reduction, scope>>

---------------------------------------------------------------------------
(* The handlers.  Each takes the job j and the heap h (the job already     *)
(* taken off the queue) and gives the heap, Promise.all records and log    *)
(* after it.                                                               *)

Line(rx, text, arg) == [h |-> rx.kind, s |-> rx.s, text |-> text, arg |-> arg]
After(h, al, lg) == [h |-> h, al |-> al, lg |-> lg]

(* .then((msg) => console.log("Fetch Data:", msg)) *)
OnThen15(j, h) ==
    IF j.st = "fulfilled"
    THEN After(Settle(h, j.rx.d, "fulfilled", Undefined), alls,
               Append(log, Line(j.rx, "Fetch Data:", j.val)))
    ELSE After(Settle(h, j.rx.d, "rejected", j.val), alls, log)

(* Faulty variant: an empty catch handler *)
OnCatch15_Silent(j, h) ==
    IF j.st = "rejected"
    THEN After(Settle(h, j.rx.d, "fulfilled", Undefined), alls, log)
    ELSE After(Settle(h, j.rx.d, "fulfilled", j.val), alls, log)

(* Faulty variant: the catch handler logs and throws the error again *)
OnCatch15_Rethrow(j, h) ==
    IF j.st = "rejected"
    THEN After(Settle(h, j.rx.d, "rejected", j.val), alls,
               Append(log, Line(j.rx, "", MessageOf(j.val))))
    ELSE After(Settle(h, j.rx.d, "fulfilled", j.val), alls, log)

(* .catch((err) => console.log(err.message)) *)
OnCatch15(j, h) ==
    IF j.st = "rejected"
    THEN After(Settle(h, j.rx.d, "fulfilled", Undefined), alls,
               Append(log, Line(j.rx, "", MessageOf(j.val))))
    ELSE After(Settle(h, j.rx.d, "fulfilled", j.val), alls, log)

(* Faulty variant: the cleanup given as a rejection handler, .then(undefined, f) *)
OnFinally15_OnlyOnReject(j, h) ==
    IF j.st = "rejected"
    THEN After(Settle(h, j.rx.d, "fulfilled", Undefined), alls,
               Append(log, Line(j.rx, "callbacks completed..!", Undefined)))
    ELSE After(Settle(h, j.rx.d, "fulfilled", j.val), alls, log)

(* .finally(() => console.log("callbacks completed..!")) *)
OnFinally15(j, h) ==
    After(Settle(h, j.rx.d, j.st, j.val), alls,
          Append(log, Line(j.rx, "callbacks completed..!", Undefined)))

(* Faulty variant: the await without its try/catch *)
OnAwait16_NoTry(j, h) ==
    IF j.st = "fulfilled"
    THEN After(Settle(h, j.rx.d, "fulfilled", Undefined), alls,
               Append(log, Line(j.rx, "Fetch Data:", j.val)))
    ELSE After(Settle(h, j.rx.d, "rejected", j.val), alls, log)

(* getData resumed after its await: the try branch or the catch branch *)
OnAwait16(j, h) ==
    IF j.st = "fulfilled"
    THEN After(Settle(h, j.rx.d, "fulfilled", Undefined), alls,
               Append(log, Line(j.rx, "Fetch Data:", j.val)))
    ELSE After(Settle(h, j.rx.d, "fulfilled", Undefined), alls,
               Append(log, Line(j.rx, "", MessageOf(j.val))))

(* the thenable job of an async function's return value *)
OnThenable(j, h) ==
    After(React(h, j.rx.i, Rx("adopt", j.rx.d, j.rx.s)), alls, log)

OnAdopt(j, h) ==
    After(Settle(h, j.rx.d, j.st, j.val), alls, log)

(* Faulty variant: the values are collected in completion order, newest   *)
(* first, not at the index of their input                                 *)
OnAll_Unshift(j, h) ==
    IF j.st = "fulfilled"
    THEN LET a == j.rx.a
             vals == [alls[a].values EXCEPT
                         ![Len(alls[a].values) + 1 - j.rx.i] = j.val]
             left == alls[a].remaining - 1
         IN After(IF left = 0 THEN Settle(h, j.rx.d, "fulfilled", Arr(vals)) ELSE h,
                  [alls EXCEPT ![a].values = vals, ![a].remaining = left], log)
    ELSE After(Settle(h, j.rx.d, "rejected", j.val), alls, log)

(* Promise.all: one input settled *)
OnAll(j, h) ==
    IF j.st = "fulfilled"
    THEN LET a == j.rx.a
             vals == [alls[a].values EXCEPT ![j.rx.i] = j.val]
             left == alls[a].remaining - 1
         IN After(IF left = 0 THEN Settle(h, j.rx.d, "fulfilled", Arr(vals)) ELSE h,
                  [alls EXCEPT ![a].values = vals, ![a].remaining = left], log)
    ELSE After(Settle(h, j.rx.d, "rejected", j.val), alls, log)

(* .then((results) => console.log("All data fetched successfully:", results)) *)
OnThen25(j, h) ==
    IF j.st = "fulfilled"
    THEN After(Settle(h, j.rx.d, "fulfilled", Undefined), alls,
               Append(log, Line(j.rx, "All data fetched successfully:", j.val)))
    ELSE After(Settle(h, j.rx.d, "rejected", j.val), alls, log)

(* Faulty variant: the error handler is attached as a handler of both   *)
(* outcomes and logs on success too                                       *)
OnCatch25_Always(j, h) ==
    After(Settle(h, j.rx.d, "fulfilled", Undefined), alls,
          Append(log, Line(j.rx, "Error fetching data:", j.val)))

(* .catch((error) => console.error("Error fetching data:", error)) *)
OnCatch25(j, h) ==
    IF j.st = "rejected"
    THEN After(Settle(h, j.rx.d, "fulfilled", Undefined), alls,
               Append(log, Line(j.rx, "Error fetching data:", j.val)))
    ELSE After(Settle(h, j.rx.d, "fulfilled", j.val), alls, log)

(* Promise.race: one input settled; the aggregate takes its outcome *)
OnRace(j, h) ==
    After(Settle(h, j.rx.d, j.st, j.val), alls, log)

(* the race consumer: log the first resolved value or the first error *)
OnThenRace(j, h) ==
    IF j.st = "fulfilled"
    THEN After(Settle(h, j.rx.d, "fulfilled", Undefined), alls,
               Append(log, Line(j.rx, "First resolved:", j.val)))
    ELSE After(Settle(h, j.rx.d, "rejected", j.val), alls, log)

OnCatchRace(j, h) ==
    IF j.st = "rejected"
    THEN After(Settle(h, j.rx.d, "fulfilled", Undefined), alls,
               Append(log, Line(j.rx, "First rejected:", MessageOf(j.val))))
    ELSE After(Settle(h, j.rx.d, "fulfilled", j.val), alls, log)

RunJob(j, h) ==
    CASE j.rx.kind = "then15" -> OnThen15(j, h)
      [] j.rx.kind = "catch15" -> OnCatch15(j, h)
      [] j.rx.kind = "finally15" -> OnFinally15(j, h)
      [] j.rx.kind = "await16" -> OnAwait16(j, h)
      [] j.rx.kind = "thenable" -> OnThenable(j, h)
      [] j.rx.kind = "adopt" -> OnAdopt(j, h)
      [] j.rx.kind = "all" -> OnAll(j, h)
      [] j.rx.kind = "then25" -> OnThen25(j, h)
      [] j.rx.kind = "catch25" -> OnCatch25(j, h)
      [] j.rx.kind = "race" -> OnRace(j, h)
      [] j.rx.kind = "thenRace" -> OnThenRace(j, h)
      [] j.rx.kind = "catchRace" -> OnCatchRace(j, h)

(* The event loop runs the oldest promise job *)
RunMicrotask ==
    /\ phase = "loop"
    /\ microtasks # <<>>
    /\ LET r == RunJob(Head(microtasks), [ps |-> promises, mq |-> Tail(microtasks)])
       IN /\ promises' = r.h.ps
          /\ microtasks' = r.h.mq
          /\ alls' = r.al
          /\ log' = r.lg
    /\ UNCHANGED <<now, phase, calls, stmts, reduction, scope>>

Next ==
    \/ \E id \in Ids : StmtChain(id)
    \/ \E id \in Ids : StmtGetData(id)
    \/ \E L \in AllLists : StmtAll("fetchData15", L)
    \/ \E L \in All25Lists : StmtAll("fetchData25", L)
    \/ \E L \in RaceLists : StmtRace(L)
    \/ EndScript
    \/ Tick
    \/ \E c \in 1..Len(calls) : FireTimer(c)
    \/ RunMicrotask

Spec == Init /\ [][Next]_vars

(* The scheduling of the run-time: a script runs to its end, the clock     *)
(* advances, and the event loop runs every job and every due timer         *)
FairSpec ==
    /\ Spec
    /\ WF_vars(EndScript)
    /\ WF_vars(Tick)
    /\ WF_vars(\E c \in 1..Len(calls) : FireTimer(c))
    /\ WF_vars(RunMicrotask)

---------------------------------------------------------------------------
(* The scripts of the repository, run statement by statement as written   *)

Stmt(kind, fn, ids) == [kind |-> kind, fn |-> fn, ids |-> ids]

Scripts ==
    { <<Stmt("getData", "fetchData16", <<3>>), Stmt("getData", "fetchData16", <<2>>),
        Stmt("getData", "fetchData16", <<31>>)>>,
      <<Stmt("chain", "fetchData15", <<2>>), Stmt("chain", "fetchData15", <<3>>)>>,
      <<Stmt("all", "fetchData25", <<1, 2, 3, 4>>)>>,
      <<Stmt("all", "fetchData15", <<1, 2, 3>>)>> }

(* The statements run so far are the first ones of script sc *)
Running(sc) ==
    /\ Len(stmts) <= Len(sc)
    /\ \A k \in DOMAIN stmts :
          Stmt(stmts[k].kind, stmts[k].fn, stmts[k].ids) = sc[k]

ScriptStmt ==
    /\ phase = "script"
    /\ \E sc \in Scripts :
          /\ Running(sc)
          /\ Len(stmts) < Len(sc)
          /\ LET d == sc[Len(stmts) + 1]
             IN \/ d.kind = "chain" /\ Chain(d.ids[1])
                \/ d.kind = "getData" /\ getData(d.ids[1])
                \/ d.kind = "all" /\ All(d.fn, d.ids)

ScriptEnd ==
    /\ \E sc \in Scripts : Running(sc) /\ Len(stmts) = Len(sc)
    /\ EndScript

ScriptNext ==
    \/ ScriptStmt
    \/ ScriptEnd
    \/ Tick
    \/ \E c \in 1..Len(calls) : FireTimer(c)
    \/ RunMicrotask

ScriptSpec == Init /\ [][ScriptNext]_vars

---------------------------------------------------------------------------
(* Vocabulary of the properties *)

IsEven(n) == n % 2 = 0
IsOdd(n) == n % 2 = 1

(* The helpers of challenges 15 and 16: success iff the id is even *)
IsParity(fn) == fn \in {"fetchData15", "fetchData16"}

PromiseOf(c) == promises[calls[c].p]

(* Nothing is left to run: the script is over, every timer has fired and  *)
(* the job queue is empty                                                  *)
Quiescent ==
    /\ phase = "loop"
    /\ microtasks = <<>>
    /\ \A c \in DOMAIN calls : calls[c].fired

(* The console lines handler kind h wrote for statement s *)
Lines(h, s) == {k \in DOMAIN log : log[k].h = h /\ log[k].s = s}

EvenCall(c) == c \in DOMAIN calls /\ IsParity(calls[c].fn) /\ IsEven(calls[c].id)
OddCall(c) == c \in DOMAIN calls /\ IsParity(calls[c].fn) /\ IsOdd(calls[c].id)

---------------------------------------------------------------------------
(* C1: every invocation fetchData(n) with n even (zero and negative even  *)
(* ids included) settles as a success whose value is the record           *)
(* {id: n, data: "Some data"}: eventually the script is over and every    *)
(* even-id invocation it made is fulfilled with that record; in no state  *)
(* is such an invocation rejected or fulfilled with another value.        *)
C1_EvenEventuallySucceeds ==
    /\ <>(/\ phase = "loop"
          /\ \A c \in DOMAIN calls :
                EvenCall(c) =>
                   /\ PromiseOf(c).st = "fulfilled"
                   /\ PromiseOf(c).val = [t |-> "object", id |-> calls[c].id,
                                          data |-> "Some data"])
    /\ [](\A c \in DOMAIN calls :
             EvenCall(c) =>
                /\ PromiseOf(c).st # "rejected"
                /\ PromiseOf(c).st = "fulfilled" =>
                      PromiseOf(c).val = [t |-> "object", id |-> calls[c].id,
                                          data |-> "Some data"])

C1_Witness ==
    \E c \in DOMAIN calls, b \in DOMAIN calls :
        /\ EvenCall(c) /\ calls[c].id < 0 /\ PromiseOf(c).st = "fulfilled"
        /\ EvenCall(b) /\ calls[b].id = 0 /\ PromiseOf(b).st = "fulfilled"

(* C2: every invocation fetchData(n) with n odd (negative odd ids         *)
(* included) settles as a failure with the message "ID must be even":     *)
(* eventually the script is over and every odd-id invocation it made is   *)
(* rejected with that Error.  The failure is a rejected promise delivered *)
(* after the call has returned (while the script runs every invocation is *)
(* still pending), and the invocation is never a success.                 *)
C2_OddEventuallyFails ==
    /\ <>(/\ phase = "loop"
          /\ \A c \in DOMAIN calls :
                OddCall(c) =>
                   /\ PromiseOf(c).st = "rejected"
                   /\ PromiseOf(c).val.t = "Error"
                   /\ PromiseOf(c).val.message = "ID must be even")
    /\ [](\A c \in DOMAIN calls :
             OddCall(c) =>
                /\ PromiseOf(c).st # "fulfilled"
                /\ phase = "script" => PromiseOf(c).st = "pending"
                /\ PromiseOf(c).st = "rejected" =>
                      /\ PromiseOf(c).val.t = "Error"
                      /\ PromiseOf(c).val.message = "ID must be even")

C2_Witness ==
    \E c \in DOMAIN calls, b \in DOMAIN calls :
        /\ OddCall(c) /\ calls[c].id < 0 /\ PromiseOf(c).st = "rejected"
        /\ OddCall(b) /\ calls[b].id > 0 /\ PromiseOf(b).st = "rejected"

(* C3: an invocation of the challenge-15/16 helper is still pending in    *)
(* every state where less than 2000 ms have passed since the call.        *)
C3_PendingBeforeDelay ==
    \A c \in DOMAIN calls :
        (IsParity(calls[c].fn) /\ now - calls[c].at < 2000) =>
            PromiseOf(c).st = "pending"

C3_Witness ==
    \E c \in DOMAIN calls :
        /\ IsParity(calls[c].fn)
        /\ phase = "loop"
        /\ now - calls[c].at > 0
        /\ now - calls[c].at < 2000
        /\ PromiseOf(c).st = "pending"

(* C4: each invocation is a two-state machine: its promise starts         *)
(* pending, leaves pending only in the step that runs its own timer       *)
(* callback, to fulfilled or rejected, and once settled keeps its outcome *)
(* and value in every later step.                                         *)
C4_TwoStateMachine ==
    [][\A c \in DOMAIN calls' :
          LET after == promises'[calls'[c].p] IN
          IF c \in DOMAIN calls
          THEN /\ PromiseOf(c).st # "pending" =>
                     (after.st = PromiseOf(c).st /\ after.val = PromiseOf(c).val)
               /\ (PromiseOf(c).st = "pending" /\ after.st # "pending") =>
                     /\ after.st \in {"fulfilled", "rejected"}
                     /\ ~calls[c].fired /\ calls'[c].fired
               /\ calls[c].fired => after.st # "pending"
          ELSE after.st = "pending" /\ ~calls'[c].fired]_vars

C4_Witness ==
    \E c \in DOMAIN calls, b \in DOMAIN calls :
        /\ PromiseOf(c).st = "fulfilled" /\ calls[c].seq = 1
        /\ PromiseOf(b).st = "rejected" /\ calls[b].seq > 1
        /\ log # <<>>

(* C5: in a chain fetchData(id).then(..).catch(..).finally(cleanup) the   *)
(* cleanup handler never runs twice, and once the run is over it has run  *)
(* exactly once, for even and for odd ids alike.                          *)
C5_CleanupExactlyOnce ==
    \A s \in DOMAIN stmts :
        stmts[s].kind = "chain" =>
            /\ Cardinality(Lines("finally15", s)) <= 1
            /\ Quiescent => Cardinality(Lines("finally15", s)) = 1

C5_Witness ==
    /\ Quiescent
    /\ \E s \in DOMAIN stmts, r \in DOMAIN stmts :
          /\ stmts[s].kind = "chain" /\ IsEven(stmts[s].ids[1])
          /\ stmts[r].kind = "chain" /\ IsOdd(stmts[r].ids[1])
          /\ Cardinality(Lines("finally15", s)) = 1
          /\ Cardinality(Lines("finally15", r)) = 1

(* C6: Promise.all over the ids [1,2,3] with the parity helper: the       *)
(* aggregate never succeeds, is rejected once the run is over, and the    *)
(* reason it carries is the Error object of the id=1 invocation (not the  *)
(* one of id=3, which fails too).                                         *)
IsAll123(s) ==
    stmts[s].kind = "all" /\ stmts[s].fn = "fetchData15" /\ stmts[s].ids = <<1, 2, 3>>

IsRace(s, L) == stmts[s].kind = "race" /\ stmts[s].ids = L

C7_RaceOfEvensYieldsOne ==
    /\ [](\A s \in DOMAIN stmts :
             IsRace(s, <<2, 4, 6>>) =>
                LET agg == promises[stmts[s].root] IN
                /\ agg.st # "rejected"
                /\ agg.st = "fulfilled" =>
                      agg.val \in {[t |-> "object", id |-> n, data |-> "Some data"] :
                                     n \in {2, 4, 6}}
                /\ Cardinality(Lines("thenRace", s)) <= 1
                /\ Lines("catchRace", s) = {}
                /\ \A k \in Lines("thenRace", s) : log[k].arg = agg.val
                /\ Quiescent => (agg.st = "fulfilled"
                                 /\ Cardinality(Lines("thenRace", s)) = 1))
    /\ [][\A s \in DOMAIN stmts :
             (IsRace(s, <<2, 4, 6>>) /\ promises[stmts[s].root].st # "pending") =>
                promises'[stmts[s].root] = promises[stmts[s].root]]_vars

C7_Witness ==
    /\ Quiescent
    /\ \E s \in DOMAIN stmts :
          /\ IsRace(s, <<2, 4, 6>>)
          /\ promises[stmts[s].root].st = "fulfilled"
          /\ Cardinality(Lines("thenRace", s)) = 1
          /\ \A i \in 1..3 : PromiseOf(stmts[s].calls[i]).st = "fulfilled"

(* C8: the aggregate of a Promise.race has the outcome and value of the   *)
(* input whose timer callback ran first, success or failure.  Over the    *)
(* ids [1,2] it is the failure "ID must be even" exactly when id=1        *)
(* settled first and the success {id: 2, data: "Some data"} exactly when  *)
(* id=2 settled first.                                                    *)
FiredOf(s) == {c \in {stmts[s].calls[i] : i \in DOMAIN stmts[s].calls} : calls[c].fired}
FirstOf(s) == CHOOSE c \in FiredOf(s) : \A b \in FiredOf(s) : calls[c].seq <= calls[b].seq

C8_RaceAdoptsFirstSettled ==
    \A s \in DOMAIN stmts :
        stmts[s].kind = "race" =>
            LET agg == promises[stmts[s].root] IN
            /\ Quiescent => agg.st # "pending"
            /\ agg.st # "pending" =>
                  /\ FiredOf(s) # {}
                  /\ agg.st = PromiseOf(FirstOf(s)).st
                  /\ agg.val = PromiseOf(FirstOf(s)).val
                  /\ IsRace(s, <<1, 2>>) =>
                        /\ (agg.st = "rejected" /\ agg.val.t = "Error"
                              /\ agg.val.message = "ID must be even")
                           <=> calls[FirstOf(s)].id = 1
                        /\ (agg.st = "fulfilled"
                              /\ agg.val = [t |-> "object", id |-> 2, data |-> "Some data"])
                           <=> calls[FirstOf(s)].id = 2

C8_Witness ==
    /\ Quiescent
    /\ \E s \in DOMAIN stmts, r \in DOMAIN stmts :
          /\ IsRace(s, <<1, 2>>) /\ promises[stmts[s].root].st = "rejected"
          /\ IsRace(r, <<2, 1>>) /\ promises[stmts[r].root].st = "fulfilled"
          /\ PromiseOf(stmts[r].calls[2]).st = "rejected"

(* C9: getData(id) logs the fetched record on its success path when id is *)
(* even and the message "ID must be even" on its catch path when id is    *)
(* odd, one line per call; the promise getData returns is never rejected  *)
(* and is fulfilled once the run is over, and no promise of the call is   *)
(* left rejected without a handler.                                       *)
C9_GetDataNeverRejects ==
    \A s \in DOMAIN stmts :
        stmts[s].kind = "getData" =>
            LET id == stmts[s].ids[1]
                mine == {k \in DOMAIN log : log[k].s = s}
                want == IF IsEven(id)
                        THEN [h |-> "await16", s |-> s, text |-> "Fetch Data:",
                              arg |-> [t |-> "object", id |-> id, data |-> "Some data"]]
                        ELSE [h |-> "await16", s |-> s, text |-> "",
                              arg |-> [t |-> "string", s |-> "ID must be even"]]
            IN /\ promises[stmts[s].last].st # "rejected"
               /\ \A k \in mine : log[k] = want
               /\ Cardinality(mine) <= 1
               /\ \A p \in stmts[s].root..stmts[s].last :
                     ~(promises[p].st = "rejected" /\ promises[p].rx = <<>>)
               /\ Quiescent => (promises[stmts[s].last].st = "fulfilled"
                                /\ Cardinality(mine) = 1)

C9_Witness ==
    /\ Quiescent
    /\ \E s \in DOMAIN stmts, r \in DOMAIN stmts :
          /\ stmts[s].kind = "getData" /\ IsOdd(stmts[s].ids[1])
          /\ stmts[r].kind = "getData" /\ IsEven(stmts[r].ids[1])
          /\ promises[stmts[s].root].st = "rejected"
          /\ promises[stmts[s].last].st = "fulfilled"
          /\ promises[stmts[r].last].st = "fulfilled"

(* C10: a failure is neither swallowed nor retried.  A consumer whose     *)
(* operation fails (a chain or getData on an odd id, a Promise.all over   *)
(* the parity helper with an odd id among its inputs) runs its failure    *)
(* path at most once, exactly once when the run is over, with the failure *)
(* as argument, and never its success path.  Every invocation has one     *)
(* timer, which runs once: a fired timer is never re-armed and no         *)
(* invocation is added once the script is over.                           *)
Fails(s) ==
    /\ IsParity(stmts[s].fn)
    /\ stmts[s].kind \in {"chain", "getData", "all"}
    /\ \E i \in DOMAIN stmts[s].ids : IsOdd(stmts[s].ids[i])

FailureLines(s) ==
    CASE stmts[s].kind = "chain" -> Lines("catch15", s)
      [] stmts[s].kind = "getData" -> {k \in Lines("await16", s) : log[k].text = ""}
      [] stmts[s].kind = "all" -> Lines("catch25", s)

SuccessLines(s) ==
    CASE stmts[s].kind = "chain" -> Lines("then15", s)
      [] stmts[s].kind = "getData" -> {k \in Lines("await16", s) : log[k].text # ""}
      [] stmts[s].kind = "all" -> Lines("then25", s)

(* The failure as the handler logs it: err.message, or the error itself *)
Observed(s, k) ==
    IF stmts[s].kind = "all"
    THEN log[k].arg.t = "Error" /\ log[k].arg.message = "ID must be even"
         /\ log[k].arg = promises[stmts[s].root].val
    ELSE log[k].arg = [t |-> "string", s |-> "ID must be even"]

C10_FailureSeenOnceNoRetry ==
    /\ [](\A s \in DOMAIN stmts :
             /\ Len(stmts[s].calls) = Len(stmts[s].ids)
             /\ Fails(s) =>
                   /\ Cardinality(FailureLines(s)) <= 1
                   /\ SuccessLines(s) = {}
                   /\ \A k \in FailureLines(s) : Observed(s, k)
                   /\ Quiescent => Cardinality(FailureLines(s)) = 1)
    /\ [][/\ \A c \in DOMAIN calls : calls[c].fired => calls'[c] = calls[c]
          /\ \A c \in DOMAIN calls :
                c \in DOMAIN calls' /\ calls'[c].id = calls[c].id /\ calls'[c].p = calls[c].p
          /\ phase = "loop" => Len(calls') = Len(calls)]_vars

C10_Witness ==
    /\ Quiescent
    /\ \E s \in DOMAIN stmts, r \in DOMAIN stmts :
          /\ stmts[s].kind = "chain" /\ Fails(s) /\ Cardinality(FailureLines(s)) = 1
          /\ stmts[r].kind = "all" /\ Fails(r) /\ Cardinality(FailureLines(r)) = 1

(* C11: invocations are stateless and independent.  The outcome of an      *)
(* invocation of the parity helper is decided by its id alone (a success   *)
(* iff the id is even), so two invocations with the same id, whatever was  *)
(* issued before them or is pending beside them, settle alike: the same    *)
(* state, the same record, the same message.                               *)
C11_OutcomeDependsOnIdOnly ==
    \A c \in DOMAIN calls :
        (IsParity(calls[c].fn) /\ PromiseOf(c).st # "pending") =>
            /\ PromiseOf(c).st = "fulfilled" <=> IsEven(calls[c].id)
            /\ \A b \in DOMAIN calls :
                  (/\ IsParity(calls[b].fn)
                   /\ calls[b].id = calls[c].id
                   /\ PromiseOf(b).st # "pending") =>
                      /\ PromiseOf(b).st = PromiseOf(c).st
                      /\ PromiseOf(c).st = "fulfilled" =>
                            PromiseOf(b).val = PromiseOf(c).val
                      /\ PromiseOf(c).st = "rejected" =>
                            PromiseOf(b).val.message = PromiseOf(c).val.message

C11_Witness ==
    \E c \in DOMAIN calls, b \in DOMAIN calls, d \in DOMAIN calls :
        /\ c < d /\ d < b
        /\ IsParity(calls[c].fn) /\ IsParity(calls[b].fn)
        /\ calls[c].id = calls[b].id /\ calls[d].id # calls[c].id
        /\ PromiseOf(c).st = "rejected" /\ PromiseOf(b).st = "rejected"
        /\ PromiseOf(d).st = "fulfilled"

(* C13: there is no cancellation.  Every invocation the script made       *)
(* eventually settles: the losers of a race and the inputs still pending  *)
(* when a Promise.all has already failed included.  No step removes an    *)
(* invocation, changes its due time, or takes a pending invocation's      *)
(* timer away (marks it run without settling the promise).                *)
C13_EveryInvocationSettles ==
    /\ <>(/\ phase = "loop"
          /\ \A c \in DOMAIN calls : PromiseOf(c).st # "pending")
    /\ [][\A c \in DOMAIN calls :
             /\ c \in DOMAIN calls'
             /\ calls'[c].due = calls[c].due
             /\ calls'[c].p = calls[c].p
             /\ calls'[c].fired => promises'[calls[c].p].st # "pending"]_vars

(* A race loser and a late input of a failed Promise.all have settled *)
C13_Witness ==
    \E s \in DOMAIN stmts, r \in DOMAIN stmts :
        /\ IsRace(s, <<2, 4, 6>>)
        /\ calls[stmts[s].calls[1]].seq < calls[stmts[s].calls[3]].seq
        /\ PromiseOf(stmts[s].calls[3]).st = "fulfilled"
        /\ promises[stmts[s].root].val = PromiseOf(stmts[s].calls[1]).val
        /\ IsAll123(r)
        /\ promises[stmts[r].root].st = "rejected"
        /\ PromiseOf(stmts[r].calls[2]).st = "fulfilled"
        /\ PromiseOf(stmts[r].calls[3]).st = "rejected"

(* C15: the fetchData of the Promise.all example (challenge 25) is the    *)
(* fetchData of challenge 15: for every id an invocation of the one and   *)
(* an invocation of the other settle with the same kind of outcome and    *)
(* the same value or message.                                             *)
C15_SameHelperAsChallenge15 ==
    \A c \in DOMAIN calls, b \in DOMAIN calls :
        (/\ calls[c].fn = "fetchData25" /\ calls[b].fn = "fetchData15"
         /\ calls[c].id = calls[b].id
         /\ PromiseOf(c).st # "pending" /\ PromiseOf(b).st # "pending") =>
            /\ PromiseOf(c).st = PromiseOf(b).st
            /\ PromiseOf(c).st = "fulfilled" => PromiseOf(c).val = PromiseOf(b).val
            /\ PromiseOf(c).st = "rejected" =>
                  PromiseOf(c).val.message = PromiseOf(b).val.message

(* C16: the fetchData of challenge 16 cannot be told from the one of      *)
(* challenge 15: for the same id the two wait the same delay, settle with *)
(* the same kind of outcome, and carry the same record on success and the *)
(* same message on failure.                                               *)
C16_SameAsChallenge15 ==
    \A c \in DOMAIN calls, b \in DOMAIN calls :
        (/\ calls[c].fn = "fetchData15" /\ calls[b].fn = "fetchData16"
         /\ calls[c].id = calls[b].id) =>
            /\ calls[c].due - calls[c].at = calls[b].due - calls[b].at
            /\ (PromiseOf(c).st # "pending" /\ PromiseOf(b).st # "pending") =>
                  /\ PromiseOf(c).st = PromiseOf(b).st
                  /\ PromiseOf(c).st = "fulfilled" =>
                        PromiseOf(c).val = PromiseOf(b).val
                  /\ PromiseOf(c).st = "rejected" =>
                        /\ PromiseOf(c).val.t = PromiseOf(b).val.t
                        /\ PromiseOf(c).val.message = PromiseOf(b).val.message

C16_Witness ==
    \E c \in DOMAIN calls, b \in DOMAIN calls, d \in DOMAIN calls :
        /\ calls[c].fn = "fetchData15" /\ calls[b].fn = "fetchData16"
        /\ calls[c].id = calls[b].id
        /\ PromiseOf(c).st = "rejected" /\ PromiseOf(b).st = "rejected"
        /\ calls[d].fn = "fetchData15" /\ IsEven(calls[d].id)
        /\ PromiseOf(d).st = "fulfilled"

(* C17: when every input of a Promise.all succeeds the aggregate succeeds *)
(* with the array of the inputs' values in input order; it succeeds in no *)
(* other case.  Over the ids 1, 2, 3 with the helper of challenge 25 the  *)
(* result is ["Data for ID 1", "Data for ID 2", "Data for ID 3"].         *)
C17_AllSucceedsInInputOrder ==
    \A s \in DOMAIN stmts :
        stmts[s].kind = "all" =>
            LET agg == promises[stmts[s].root]
                m == Len(stmts[s].ids)
                allIn == \A i \in 1..m :
                            PromiseOf(stmts[s].calls[i]).st = "fulfilled"
            IN /\ agg.st = "fulfilled" =>
                     /\ allIn
                     /\ agg.val = Arr([i \in 1..m |-> PromiseOf(stmts[s].calls[i]).val])
               /\ (Quiescent /\ allIn) => agg.st = "fulfilled"
               /\ (/\ Quiescent
                   /\ stmts[s].fn = "fetchData25"
                   /\ stmts[s].ids = <<1, 2, 3>>) =>
                     /\ agg.st = "fulfilled"
                     /\ agg.val = Arr(<<Str("Data for ID 1"), Str("Data for ID 2"),
                                        Str("Data for ID 3")>>)

C17_Witness ==
    \E s \in DOMAIN stmts :
        /\ stmts[s].kind = "all" /\ stmts[s].fn = "fetchData25"
        /\ stmts[s].ids = <<1, 2, 3>>
        /\ promises[stmts[s].root].st = "fulfilled"
        /\ promises[stmts[s].root].val.items[3] = Str("Data for ID 3")
        /\ Lines("then25", s) # {}

(* C18: the consumer of a Promise.all logs exactly one of two things: the *)
(* array of all resolved data, or the first error.  Never both, and, once *)
(* the run is over, never neither.  The data line is written only for a   *)
(* fulfilled aggregate and shows its array; the error line only for a     *)
(* rejected one and shows the reason of the input that failed first.      *)
RejectedOf(s) ==
    {c \in FiredOf(s) : PromiseOf(c).st = "rejected"}

C18_AllLogsExactlyOne ==
    \A s \in DOMAIN stmts :
        stmts[s].kind = "all" =>
            LET agg == promises[stmts[s].root]
                data == Lines("then25", s)
                errs == Lines("catch25", s)
            IN /\ Cardinality(data) + Cardinality(errs) <= 1
               /\ Quiescent => Cardinality(data) + Cardinality(errs) = 1
               /\ \A k \in data :
                     /\ agg.st = "fulfilled"
                     /\ log[k].text = "All data fetched successfully:"
                     /\ log[k].arg = agg.val
               /\ \A k \in errs :
                     /\ agg.st = "rejected"
                     /\ log[k].text = "Error fetching data:"
                     /\ \E c \in RejectedOf(s) :
                           /\ log[k].arg = PromiseOf(c).val
                           /\ \A b \in RejectedOf(s) : calls[c].seq <= calls[b].seq

C18_Witness ==
    /\ Quiescent
    /\ \E s \in DOMAIN stmts, r \in DOMAIN stmts :
          /\ stmts[s].kind = "all" /\ stmts[r].kind = "all"
          /\ Cardinality(Lines("then25", s)) = 1 /\ Lines("catch25", s) = {}
          /\ Cardinality(Lines("catch25", r)) = 1 /\ Lines("then25", r) = {}
          /\ \E k \in Lines("catch25", r) :
                log[k].arg = Str("Error: Invalid ID 4")

(* C14, as stated: the fixed delay is also the maximum wait; in no        *)
(* reachable state has more than the delay elapsed since the call with    *)
(* the invocation still pending.                                          *)
C14_DelayIsMaximumWait ==
    \A c \in DOMAIN calls :
        (IsParity(calls[c].fn) /\ PromiseOf(c).st = "pending") =>
            now - calls[c].at <= DelayOf(calls[c].fn)

(* C14, amended: the fixed delay is the minimum wait and there is no      *)
(* timeout path.  An invocation is pending until its delay has elapsed;   *)
(* one still pending after that has its timer armed and overdue, waiting  *)
(* only for the event loop, which then has a job or a due timer to run;   *)
(* however late the timer runs, the outcome is the one the id decides,    *)
(* never a timeout failure.                                               *)
C14_DelayIsMinimumNoTimeout ==
    \A c \in DOMAIN calls :
        IsParity(calls[c].fn) =>
            /\ now - calls[c].at < DelayOf(calls[c].fn) => PromiseOf(c).st = "pending"
            /\ (PromiseOf(c).st = "pending"
                  /\ now - calls[c].at >= DelayOf(calls[c].fn)) =>
                  /\ ~calls[c].fired
                  /\ calls[c].due <= now
                  /\ phase = "loop" =>
                        \/ microtasks # <<>>
                        \/ \E b \in DOMAIN calls : TimerReady(b)
            /\ PromiseOf(c).st = "fulfilled" =>
                  (IsEven(calls[c].id) /\ PromiseOf(c).val = Obj(calls[c].id))
            /\ PromiseOf(c).st = "rejected" =>
                  (IsOdd(calls[c].id) /\ PromiseOf(c).val.t = "Error"
                     /\ PromiseOf(c).val.message = "ID must be even")

(* Invocations that waited longer than the delay: one settled late, one   *)
(* still pending                                                          *)
C14_Witness ==
    \E c \in DOMAIN calls, b \in DOMAIN calls :
        /\ IsParity(calls[c].fn) /\ IsParity(calls[b].fn)
        /\ now - calls[c].at > DelayOf(calls[c].fn)
        /\ PromiseOf(c).st = "rejected"
        /\ now - calls[b].at > DelayOf(calls[b].fn)
        /\ PromiseOf(b).st = "pending"

(* C12: the delay is non-blocking.  A call to fetchData or getData        *)
(* returns while its operation is pending: the statement that makes it    *)
(* ends with the operation and the promise it returned pending, and the   *)
(* script runs on, so that nothing has settled or been logged before the  *)
(* script is over.  An operation waits for no other one: its timer is due *)
(* one delay after its own call, so in getData(3); getData(2);            *)
(* getData(31) the three are set before any of them settles.  Only        *)
(* getData is suspended, at its await: its promise stays pending and its  *)
(* line unwritten for as long as the fetch it awaits is pending.          *)
IsSixteen ==
    /\ Len(stmts) = 3
    /\ \A s \in DOMAIN stmts : stmts[s].kind = "getData"
    /\ <<stmts[1].ids[1], stmts[2].ids[1], stmts[3].ids[1]>> = <<3, 2, 31>>

C12_DelayIsNonBlocking ==
    /\ [](/\ phase = "script" =>
                /\ \A p \in DOMAIN promises : promises[p].st = "pending"
                /\ \A c \in DOMAIN calls : ~calls[c].fired
                /\ log = <<>>
          /\ \A c \in DOMAIN calls :
                calls[c].due = calls[c].at + DelayOf(calls[c].fn)
          /\ (\E c \in DOMAIN calls : calls[c].fired) =>
                \A sc \in Scripts : Running(sc) => Len(stmts) = Len(sc)
          /\ \A s \in DOMAIN stmts :
                (stmts[s].kind = "getData" /\ promises[stmts[s].root].st = "pending") =>
                    /\ promises[stmts[s].last].st = "pending"
                    /\ {k \in DOMAIN log : log[k].s = s} = {})
    /\ [][\A s \in DOMAIN stmts' :
             s \notin DOMAIN stmts =>
                /\ phase' = "script"
                /\ promises'[stmts'[s].root].st = "pending"
                /\ promises'[stmts'[s].last].st = "pending"
                /\ \A i \in DOMAIN stmts'[s].calls :
                      promises'[calls'[stmts'[s].calls[i]].p].st = "pending"]_vars

(* getData(3); getData(2); getData(31): all three pending at once, time   *)
(* running                                                                *)
C12_Witness ==
    /\ IsSixteen
    /\ phase = "loop"
    /\ now > 0
    /\ \A s \in 1..3 :
          /\ PromiseOf(stmts[s].calls[1]).st = "pending"
          /\ promises[stmts[s].last].st = "pending"

(* The reduce call has returned *)
Reduced(task) ==
    reduction.task = task /\ reduction.i = Len(reduction.list)

RECURSIVE SumOfPrices(_)
SumOfPrices(L) == IF L = <<>> THEN 0 ELSE Head(L).price.n + SumOfPrices(Tail(L))

(* C19: challenge 17: reducing a list of {item, price} records with the   *)
(* calculate reducer and the initial value 0 yields the sum of the price  *)
(* fields, 60 for the list [A/10, B/20, C/30].                            *)
C19_TotalIsSumOfPrices ==
    Reduced("17") =>
        /\ reduction.acc = Num(SumOfPrices(reduction.list))
        /\ reduction.list = obj => reduction.acc = Num(60)

(* The items of L whose type is ty, each as the object {name: ...} *)
NamesOf(L, ty) ==
    LET of == SelectSeq(L, LAMBDA it : it.type = ty)
    IN [k \in DOMAIN of |-> [name |-> of[k].name]]

(* C20: challenge 18: the reduce groups {type, name} records by type into *)
(* an object whose keys are exactly the types of the list and whose value *)
(* per type is the list of the objects {name: ...} of that type in input  *)
(* order; for the given list { fruit: [{name: "apple"}, {name: "banana"}] *)
(* , vegetable: [{name: "carrot"}] }.                                     *)
C20_GroupsObjectsByType ==
    Reduced("18") =>
        /\ DOMAIN reduction.acc =
              {reduction.list[k].type : k \in DOMAIN reduction.list}
        /\ \A ty \in DOMAIN reduction.acc :
              reduction.acc[ty] = NamesOf(reduction.list, ty)
        /\ reduction.list = arr =>
              reduction.acc = [fruit |-> <<[name |-> Str("apple")],
                                           [name |-> Str("banana")]>>,
                               vegetable |-> <<[name |-> Str("carrot")]>>]

(* C25: in a chain fetchData(id).then(onSuccess).catch(onFailure)         *)
(* .finally(cleanup) exactly one of onSuccess and onFailure runs per      *)
(* invocation, onSuccess only for an even id and onFailure only for an    *)
(* odd one; it runs only after the invocation has settled, and before     *)
(* the cleanup handler of the same chain.                                 *)
C25_OneHandlerThenCleanup ==
    \A s \in DOMAIN stmts :
        stmts[s].kind = "chain" =>
            LET id == stmts[s].ids[1]
                c == stmts[s].calls[1]
                ran == Lines("then15", s) \cup Lines("catch15", s)
            IN /\ Cardinality(ran) <= 1
               /\ Lines("then15", s) # {} => IsEven(id)
               /\ Lines("catch15", s) # {} => IsOdd(id)
               /\ ran # {} => (calls[c].fired /\ PromiseOf(c).st # "pending")
               /\ \A k \in Lines("finally15", s) : \E j \in ran : j < k
               /\ Quiescent =>
                     /\ Cardinality(ran) = 1
                     /\ IsEven(id) => Lines("then15", s) # {}
                     /\ IsOdd(id) => Lines("catch15", s) # {}

C25_Witness ==
    \E s \in DOMAIN stmts, r \in DOMAIN stmts :
        /\ stmts[s].kind = "chain" /\ stmts[r].kind = "chain"
        /\ \E j \in Lines("then15", s), k \in Lines("finally15", s) : j < k
        /\ \E j \in Lines("catch15", r), k \in Lines("finally15", r) : j < k

(* C26: the aggregate of a Promise.all succeeds only when every input has *)
(* succeeded, and fails at the first input rejection without waiting for  *)
(* the inputs still pending: once a rejection has been delivered (no job  *)
(* is waiting) the aggregate is rejected.  A settled aggregate keeps its  *)
(* outcome and value in every later step, and the lines its handlers      *)
(* wrote stay as they are: later input settlements run no handler again.  *)
InputsOf(s) == {stmts[s].calls[i] : i \in DOMAIN stmts[s].calls}

C26_AllSettlesOnceAtFirstRejection ==
    /\ [](\A s \in DOMAIN stmts :
             stmts[s].kind = "all" =>
                LET agg == promises[stmts[s].root] IN
                /\ agg.st = "fulfilled" =>
                      \A c \in InputsOf(s) : PromiseOf(c).st = "fulfilled"
                /\ agg.st = "rejected" =>
                      \E c \in InputsOf(s) : PromiseOf(c).st = "rejected"
                /\ (microtasks = <<>>
                      /\ \E c \in InputsOf(s) : PromiseOf(c).st = "rejected") =>
                      agg.st = "rejected")
    /\ [][\A s \in DOMAIN stmts :
             (stmts[s].kind = "all" /\ promises[stmts[s].root].st # "pending") =>
                /\ promises'[stmts[s].root] = promises[stmts[s].root]
                /\ Cardinality(Lines("then25", s) \cup Lines("catch25", s)) = 1 =>
                      /\ Len(log') >= Len(log)
                      /\ \A k \in Len(log) + 1..Len(log') : log'[k].s # s]_vars

(* The aggregate has failed and logged while one of its inputs is pending *)
C26_Witness ==
    \E s \in DOMAIN stmts :
        /\ stmts[s].kind = "all"
        /\ promises[stmts[s].root].st = "rejected"
        /\ Lines("catch25", s) # {}
        /\ PromiseOf(stmts[s].calls[2]).st = "fulfilled"
        /\ PromiseOf(stmts[s].calls[3]).st = "pending"

(* C27: the fetchData of the Promise.all file settles not before 1000 ms  *)
(* after the call, as a success with the string "Data for ID <id>"        *)
(* exactly when 1 <= id <= 3 and otherwise as a failure with the string   *)
(* "Error: Invalid ID <id>" (a string, not an Error); whether id is even  *)
(* or odd plays no role.                                                  *)
Expected25(id) ==
    IF 1 <= id /\ id <= 3
    THEN [st |-> "fulfilled", val |-> [t |-> "string", s |-> "Data for ID " \o ToString(id)]]
    ELSE [st |-> "rejected", val |-> [t |-> "string", s |-> "Error: Invalid ID " \o ToString(id)]]

C27_Helper25ByRange ==
    /\ \A id \in (0 - MaxId)..(3 + MaxId), c \in 1..2 :
          fetchData25(id, c) = Expected25(id)
    /\ \A c \in DOMAIN calls :
          calls[c].fn = "fetchData25" =>
             /\ calls[c].due = calls[c].at + 1000
             /\ now - calls[c].at < 1000 => PromiseOf(c).st = "pending"
             /\ PromiseOf(c).st # "pending" =>
                   /\ PromiseOf(c).st = Expected25(calls[c].id).st
                   /\ PromiseOf(c).val = Expected25(calls[c].id).val

C27_Witness ==
    \E a \in DOMAIN calls, b \in DOMAIN calls, c \in DOMAIN calls :
        /\ calls[a].fn = "fetchData25" /\ calls[a].id = 1
        /\ PromiseOf(a).val = Str("Data for ID 1")
        /\ calls[b].fn = "fetchData25" /\ calls[b].id = 2
        /\ PromiseOf(b).val = Str("Data for ID 2")
        /\ calls[c].fn = "fetchData25" /\ calls[c].id = 4
        /\ PromiseOf(c).st = "rejected"
        /\ PromiseOf(c).val = Str("Error: Invalid ID 4")

(* C28: the Promise.all over fetchData(1), fetchData(2), fetchData(3),    *)
(* fetchData(4) of the Promise.all file ends in the catch handler with    *)
(* the reason "Error: Invalid ID 4": the success handler runs in no       *)
(* state, the aggregate is never fulfilled, any error line shows that     *)
(* reason, and once the run is over there is exactly one error line,      *)
(* although the invocations for ids 1, 2 and 3 have each succeeded.       *)
IsAll1234(s) ==
    stmts[s].kind = "all" /\ stmts[s].fn = "fetchData25" /\ stmts[s].ids = <<1, 2, 3, 4>>

C28_All1234EndsInCatch ==
    \A s \in DOMAIN stmts :
        IsAll1234(s) =>
            LET agg == promises[stmts[s].root] IN
            /\ Lines("then25", s) = {}
            /\ agg.st # "fulfilled"
            /\ agg.st = "rejected" => agg.val = Str("Error: Invalid ID 4")
            /\ \A k \in Lines("catch25", s) :
                  /\ log[k].text = "Error fetching data:"
                  /\ log[k].arg = Str("Error: Invalid ID 4")
            /\ \A i \in 1..3 : PromiseOf(stmts[s].calls[i]).st # "rejected"
            /\ Quiescent =>
                  /\ agg.st = "rejected"
                  /\ Cardinality(Lines("catch25", s)) = 1
                  /\ \A i \in 1..3 : PromiseOf(stmts[s].calls[i]).st = "fulfilled"

C28_Witness ==
    /\ Quiescent
    /\ \E s \in DOMAIN stmts :
          /\ IsAll1234(s)
          /\ \E k \in Lines("catch25", s) : log[k].arg = Str("Error: Invalid ID 4")
          /\ PromiseOf(stmts[s].calls[3]).val = Str("Data for ID 3")
          /\ alls[1].remaining = 1

(* C29: invocations with the same delay issued one after another have     *)
(* their timers run in issue order and so settle in invocation order.     *)
(* The run getData(3); getData(2); getData(31) logs "ID must be even",    *)
(* then the record for id 2, then "ID must be even": the console holds    *)
(* the first lines of that sequence at any time and all three, no more,   *)
(* once the run is over.                                                  *)
Log16 ==
    <<[h |-> "await16", s |-> 1, text |-> "", arg |-> Str("ID must be even")],
      [h |-> "await16", s |-> 2, text |-> "Fetch Data:", arg |-> Obj(2)],
      [h |-> "await16", s |-> 3, text |-> "", arg |-> Str("ID must be even")]>>

C29_SameDelaySettlesInIssueOrder ==
    /\ \A c \in DOMAIN calls, b \in DOMAIN calls :
          (c < b /\ DelayOf(calls[c].fn) = DelayOf(calls[b].fn) /\ calls[b].fired) =>
             /\ calls[c].fired
             /\ calls[c].seq < calls[b].seq
    /\ IsSixteen =>
          /\ Len(log) <= 3
          /\ log = SubSeq(Log16, 1, Len(log))
          /\ Quiescent => log = Log16

C29_Witness ==
    /\ IsSixteen
    /\ Quiescent
    /\ Len(log) = 3
    /\ log[2].arg = [t |-> "object", id |-> 2, data |-> "Some data"]
    /\ calls[3].seq = 3

(* C30: the promise the whole chain .then(..).catch(..).finally(..) of    *)
(* the challenge-15 file returns is never rejected and is fulfilled once  *)
(* the run is over, for even and for odd ids.  The rejection of an odd id *)
(* is consumed by the catch handler: every rejected promise of the chain  *)
(* has a handler attached, and the promises after the catch handler are   *)
(* never rejected.                                                        *)
C30_ChainAlwaysFulfils ==
    \A s \in DOMAIN stmts :
        stmts[s].kind = "chain" =>
            LET root == stmts[s].root
                last == stmts[s].last
            IN /\ promises[last].st # "rejected"
               /\ promises[last].st = "fulfilled" => promises[last].val = Undefined
               /\ \A p \in root..last :
                     promises[p].st = "rejected" =>
                        /\ promises[p].rx # <<>>
                        /\ p <= root + 1
               /\ Quiescent => \A p \in root + 2..last : promises[p].st = "fulfilled"

C30_Witness ==
    /\ Quiescent
    /\ \E s \in DOMAIN stmts, r \in DOMAIN stmts :
          /\ stmts[s].kind = "chain" /\ IsEven(stmts[s].ids[1])
          /\ stmts[r].kind = "chain" /\ IsOdd(stmts[r].ids[1])
          /\ promises[stmts[s].last].st = "fulfilled"
          /\ promises[stmts[r].last].st = "fulfilled"
          /\ promises[stmts[r].root + 1].st = "rejected"

(* C21: challenge 22: the find() lookup over [{id:1,name:"A"},            *)
(* {id:2,name:"B"}, {id:3,name:"C"}] gets the user object with id 2: the  *)
(* program's result is {id: 2, name: "B"}, not "User not found".          *)
C21_FindsUserWithId2 ==
    (scope.task = "22" /\ scope.pc = "logged" /\ scope.users = users) =>
        /\ scope.user = [id |-> 2, name |-> "B"]
        /\ scope.out = [id |-> 2, name |-> "B"]

(* C22: challenge 23: some() answers whether any number is greater than 5 *)
(* and every() whether all numbers are even; both are true for            *)
(* [2, 4, 6, 8].                                                          *)
C22_SomeOver5EveryEven ==
    (scope.task = "23" /\ scope.pc = "every") =>
        /\ scope.someNumbers = (\E k \in DOMAIN scope.numbers : scope.numbers[k] > 5)
        /\ scope.everyNumbers = (\A k \in DOMAIN scope.numbers : IsEven(scope.numbers[k]))
        /\ scope.numbers = <<2, 4, 6, 8>> =>
              (scope.someNumbers = TRUE /\ scope.everyNumbers = TRUE)

(* C23: challenge 14, the shallow copy.  After copy = {...original} the   *)
(* copy is another object than the original whose b is the same nested    *)
(* object, and stays so after both writes.  The assignment to copy.a      *)
(* gives copy.a the value written and leaves original.a (and the nested   *)
(* c) as they were; the assignment to copy.b.c gives original.b.c the     *)
(* value written too, and leaves original.a and copy.a as they were.      *)
C23_ShallowCopySharesNested ==
    /\ [](scope.task = "14" /\ scope.pc # "start" =>
             /\ scope.copy # scope.original
             /\ scope.heap[scope.copy].b = scope.heap[scope.original].b
             /\ scope.pc = "a" => scope.heap[scope.copy].a = scope.v
             /\ scope.pc = "c" =>
                   /\ scope.heap[scope.heap[scope.original].b].c = scope.v
                   /\ scope.heap[scope.heap[scope.copy].b].c = scope.v)
    /\ [][(scope.task = "14" /\ scope.pc # "start") =>
             /\ scope'.heap[scope.original].a = scope.heap[scope.original].a
             /\ scope'.pc = "a" =>
                   scope'.heap[scope.heap[scope.original].b].c =
                      scope.heap[scope.heap[scope.original].b].c
             /\ scope'.pc = "c" =>
                   scope'.heap[scope.copy].a = scope.heap[scope.copy].a]_vars

(* Both writes done: the original kept its a, which the copy changed, and *)
(* got the new c                                                          *)
C23_Witness ==
    /\ scope.task = "14" /\ scope.pc = "c"
    /\ scope.heap[scope.original].a = 1
    /\ scope.heap[scope.copy].a = 10
    /\ scope.heap[scope.heap[scope.original].b].c = 20

(* C24: Rectangle.  After construction and after any sequence of          *)
(* assignments to the dimensions setter, the area getter returns width *  *)
(* height of the current state; an assignment dimensions = {width: w,     *)
(* height: h} (and the constructor) sets both properties to w and h;      *)
(* reading area changes neither width nor height.                         *)
C24_AreaOfCurrentDimensions ==
    /\ [](scope.task = "24" /\ scope.op # "none" =>
             /\ scope.op = "get" => scope.read = scope.rect.width * scope.rect.height
             /\ scope.op \in {"new", "set"} =>
                   /\ scope.rect.width = scope.arg.width
                   /\ scope.rect.height = scope.arg.height)
    /\ [][(scope.task = "24" /\ scope.op # "none" /\ scope'.op = "get") =>
             scope'.rect = scope.rect]_vars

(* The area read after the setter changed both sides *)
C24_Witness ==
    /\ scope.task = "24" /\ scope.op = "get" /\ scope.n = 2
    /\ scope.rect = [width |-> 5, height |-> 10]
    /\ scope.arg = [width |-> 5, height |-> 10]
    /\ scope.read = 50

====
